---- MODULE Spec2Model ----
(***************************************************************************)
(* Model of the securepenguin inventory scanner: the SSH probe and its     *)
(* text parsers (src/src/ssh_client.rs), the HTTP endpoint prober          *)
(* (src/src/web_scanner.rs) and the fleet orchestrator with its issue      *)
(* derivation and summary (src/src/scanner.rs).                            *)
(*                                                                         *)
(* Text is modelled lexically: a command output is a sequence of lines     *)
(* (what str::lines yields), a line is a sequence of chunks, and a chunk   *)
(* is a run of characters that the parsers never look inside: one blank    *)
(* " ", one colon ":", one double quote, or a word.  A Rust String built   *)
(* from a slice of a line is the corresponding sequence of chunks.         *)
(* Option<T> is a sequence of length at most one; Result<T> is a record    *)
(* with the fields ok and val.                                             *)
(***************************************************************************)
EXTENDS Integers, Sequences, FiniteSets, TLC

----------------------------------------------------------------------------
(* Option and Result *)

None == <<>>
Some(x) == <<x>>
is_some(o) == o # <<>>
unwrap_or(o, d) == IF o = <<>> THEN d ELSE o[1]

Ok(v) == [ok |-> TRUE, val |-> v]
Err(e) == [ok |-> FALSE, val |-> e]

----------------------------------------------------------------------------
(* str helpers over sequences of chunks *)

is_whitespace(c) == c = " "

RECURSIVE trim_start(_)
trim_start(s) ==
    IF s = <<>> THEN <<>>
    ELSE IF is_whitespace(Head(s)) THEN trim_start(Tail(s)) ELSE s

RECURSIVE trim_end(_)
trim_end(s) ==
    IF s = <<>> THEN <<>>
    ELSE IF is_whitespace(s[Len(s)]) THEN trim_end(SubSeq(s, 1, Len(s) - 1)) ELSE s

trim(s) == trim_end(trim_start(s))

starts_with(s, p) == Len(s) >= Len(p) /\ SubSeq(s, 1, Len(p)) = p

contains(s, p) == \E k \in 1..(Len(s) - Len(p) + 1) : SubSeq(s, k, k + Len(p) - 1) = p

\* the positions at or after a where the pattern p occurs in s
occurrences(s, p, a) ==
    {k \in a..(Len(s) - Len(p) + 1) : SubSeq(s, k, k + Len(p) - 1) = p}

least(positions) == CHOOSE k \in positions : \A j \in positions : k <= j

\* str::split(pattern): the pieces between the occurrences of p
split(s, p) ==
    LET from[a \in 1..(Len(s) + 1)] ==
            IF occurrences(s, p, a) = {} THEN <<SubSeq(s, a, Len(s))>>
            ELSE <<SubSeq(s, a, least(occurrences(s, p, a)) - 1)>>
                 \o from[least(occurrences(s, p, a)) + Len(p)]
    IN from[1]

\* str::splitn(n, pattern): at most n pieces, the last one holding the rest
splitn(n, s, p) ==
    LET from[a \in 1..(Len(s) + 1), m \in 0..n] ==
            IF m = 0 THEN <<>>
            ELSE IF m = 1 \/ occurrences(s, p, a) = {} THEN <<SubSeq(s, a, Len(s))>>
            ELSE <<SubSeq(s, a, least(occurrences(s, p, a)) - 1)>>
                 \o from[least(occurrences(s, p, a)) + Len(p), m - 1]
    IN from[1, n]

\* Iterator::nth, counted from 0
nth(pieces, n) == IF Len(pieces) > n THEN Some(pieces[n + 1]) ELSE None

\* str::split_whitespace: the non-empty runs of non-blank chunks
split_whitespace(s) ==
    LET words(a) == {k \in a..Len(s) : ~is_whitespace(s[k])}
        blanks(a) == {k \in a..Len(s) : is_whitespace(s[k])} \cup {Len(s) + 1}
        from[a \in 1..(Len(s) + 1)] ==
            IF words(a) = {} THEN <<>>
            ELSE <<SubSeq(s, least(words(a)), least(blanks(least(words(a)))) - 1)>>
                 \o from[least(blanks(least(words(a))))]
    IN from[1]

\* [T]::join(sep)
RECURSIVE join(_, _)
join(pieces, sep) ==
    IF pieces = <<>> THEN <<>>
    ELSE IF Len(pieces) = 1 THEN pieces[1]
    ELSE pieces[1] \o sep \o join(Tail(pieces), sep)

\* str::to_lowercase on the words that carry upper-case letters
LowerOf ==
    ("Docker" :> "docker") @@ ("NGINX" :> "nginx") @@ ("Redis" :> "redis")

to_lowercase(s) ==
    [k \in 1..Len(s) |-> IF s[k] \in DOMAIN LowerOf THEN LowerOf[s[k]] ELSE s[k]]

\* str::parse::<u16> on the words that are decimal numbers below 65536
U16Of ==
    ("22" :> 22) @@ ("80" :> 80) @@ ("443" :> 443) @@ ("51820" :> 51820)

parse_u16(s) ==
    IF Len(s) = 1 /\ s[1] \in DOMAIN U16Of THEN Some(U16Of[s[1]]) ELSE None

\* String::contains / trim().is_empty() on a whole output
output_contains(output, word) ==
    \E k \in 1..Len(output) : contains(output[k], <<word>>)

output_blank(output) ==
    \A k \in 1..Len(output) : trim(output[k]) = <<>>

----------------------------------------------------------------------------
(* SshClient::list_running_services *)

service_patterns ==
    << "docker", "podman", "wireguard", "samba", "guacamole",
       "nginx", "traefik", "apache", "mysql", "postgres", "redis",
       "pdns", "powerdns", "n8n", "obsidian", "couchdb", "authelia" >>

\* an inner loop that stops at the first pattern found in the line
line_services_first_match(line) ==
    IF \E k \in 1..Len(service_patterns) :
           contains(to_lowercase(line), <<service_patterns[k]>>)
    THEN << [name |-> line, status |-> "Running", ports |-> <<>>] >>
    ELSE <<>>

\* the inner loop over service_patterns for one trimmed, non-empty line
line_services(line) ==
    LET upto[k \in 0..Len(service_patterns)] ==
            IF k = 0 THEN <<>>
            ELSE IF contains(to_lowercase(line), <<service_patterns[k]>>)
                 THEN Append(upto[k - 1],
                             [name |-> line, status |-> "Running", ports |-> <<>>])
                 ELSE upto[k - 1]
    IN upto[Len(service_patterns)]

list_running_services(r) ==
    IF ~r.ok THEN Err(r.val)
    ELSE LET output == r.val
             upto[k \in 0..Len(output)] ==
                 IF k = 0 THEN <<>>
                 ELSE LET line == trim(output[k])
                      IN IF line # <<>> THEN upto[k - 1] \o line_services(line)
                         ELSE upto[k - 1]
         IN Ok(upto[Len(output)])

----------------------------------------------------------------------------
(* SshClient::list_docker_containers / list_podman_containers *)

\* the loop over output.lines().skip(1), shared by the two listings
container_rows(output) ==
    LET upto[k \in 0..Len(output)] ==
            IF k <= 1 THEN <<>>
            ELSE LET parts == split_whitespace(output[k])
                 IN IF Len(parts) >= 3
                    THEN Append(upto[k - 1],
                                [name |-> parts[1], status |-> parts[2], ports |-> parts[3]])
                    ELSE upto[k - 1]
    IN upto[Len(output)]

list_docker_containers(r) ==
    IF ~r.ok THEN Err(r.val)
    ELSE IF output_contains(r.val, "DOCKER_ERROR") \/ output_blank(r.val) THEN Ok(<<>>)
    ELSE Ok(container_rows(r.val))

list_podman_containers(r) ==
    IF ~r.ok THEN Err(r.val)
    ELSE IF output_contains(r.val, "PODMAN_ERROR") \/ output_blank(r.val) THEN Ok(<<>>)
    ELSE Ok(container_rows(r.val))

\* a presence check that looks at the exit status only
docker_found_on_success(r) == r.ok

\* the presence check of list_containers: TRUE when the docker listing is used
docker_found(r) == r.ok /\ output_contains(r.val, "DOCKER_FOUND")

\* list_containers on the outcomes of its commands: presence is what the
\* presence check gave, docker and podman what each listing command gives
\* when it is run. queried holds the commands run, in order.
list_containers(presence, docker, podman) ==
    IF docker_found(presence)
    THEN [queried |-> <<"presence", "docker">>,
          result |-> list_docker_containers(docker)]
    ELSE [queried |-> <<"presence", "podman">>,
          result |-> list_podman_containers(podman)]

----------------------------------------------------------------------------
(* SshClient::get_wireguard_status *)

\* line.split(':').nth(1).unwrap_or(default).trim().to_string()
field_value(line, default) ==
    trim(unwrap_or(nth(split(line, <<":">>), 1), default))

new_peer(line) ==
    [public_key |-> field_value(line, <<"unknown">>),
     endpoint |-> None,
     allowed_ips |-> <<>>,
     latest_handshake |-> None,
     transfer |-> None]

\* one iteration of the loop over output.lines(); st holds the loop's locals
wireguard_line(st, raw) ==
    LET line == trim(raw)
    IN IF starts_with(line, <<"interface", ":">>) THEN
           [st EXCEPT !.interface = field_value(line, <<"wg0">>),
                      !.peers = st.peers \o st.current_peer,
                      !.current_peer = None]
       ELSE IF starts_with(line, <<"public", " ", "key", ":">>) THEN
           [st EXCEPT !.public_key = field_value(line, <<"unknown">>)]
       ELSE IF starts_with(line, <<"listening", " ", "port", ":">>) THEN
           LET port_str == nth(split(line, <<":">>), 1)
           IN IF is_some(port_str)
              THEN [st EXCEPT !.listening_port = unwrap_or(parse_u16(trim(port_str[1])), 0)]
              ELSE st
       ELSE IF starts_with(line, <<"peer", ":">>) THEN
           [st EXCEPT !.peers = st.peers \o st.current_peer,
                      !.current_peer = Some(new_peer(line))]
       ELSE IF starts_with(line, <<" ", " ", "endpoint", ":">>) THEN
           IF is_some(st.current_peer)
           THEN [st EXCEPT !.current_peer[1].endpoint =
                               Some(field_value(line, <<"unknown">>))]
           ELSE st
       ELSE IF starts_with(line, <<" ", " ", "allowed", " ", "ips", ":">>) THEN
           IF is_some(st.current_peer)
           THEN [st EXCEPT !.current_peer[1].allowed_ips =
                               field_value(line, <<"unknown">>)]
           ELSE st
       ELSE IF starts_with(line, <<" ", " ", "latest", " ", "handshake", ":">>) THEN
           IF is_some(st.current_peer)
           THEN [st EXCEPT !.current_peer[1].latest_handshake =
                               Some(field_value(line, <<"unknown">>))]
           ELSE st
       ELSE IF starts_with(line, <<" ", " ", "transfer", ":">>) THEN
           IF is_some(st.current_peer)
           THEN [st EXCEPT !.current_peer[1].transfer =
                               Some(field_value(line, <<"unknown">>))]
           ELSE st
       ELSE st

\* the parser without the push of current_peer after the loop
get_wireguard_status_unflushed(r) ==
    IF ~r.ok THEN Err(r.val)
    ELSE IF output_contains(r.val, "WG_ERROR") \/ output_blank(r.val) THEN Ok(None)
    ELSE LET output == r.val
             start == [peers |-> <<>>, current_peer |-> None, public_key |-> <<>>,
                       listening_port |-> 0, interface |-> <<"wg0">>]
             upto[k \in 0..Len(output)] ==
                 IF k = 0 THEN start ELSE wireguard_line(upto[k - 1], output[k])
             end == upto[Len(output)]
         IN Ok(Some([interface |-> end.interface,
                     public_key |-> end.public_key,
                     listening_port |-> end.listening_port,
                     peers |-> end.peers,
                     error |-> None]))

get_wireguard_status(r) ==
    IF ~r.ok THEN Err(r.val)
    ELSE IF output_contains(r.val, "WG_ERROR") \/ output_blank(r.val) THEN Ok(None)
    ELSE LET output == r.val
             start == [peers |-> <<>>, current_peer |-> None, public_key |-> <<>>,
                       listening_port |-> 0, interface |-> <<"wg0">>]
             upto[k \in 0..Len(output)] ==
                 IF k = 0 THEN start ELSE wireguard_line(upto[k - 1], output[k])
             end == upto[Len(output)]
         IN Ok(Some([interface |-> end.interface,
                     public_key |-> end.public_key,
                     listening_port |-> end.listening_port,
                     peers |-> end.peers \o end.current_peer,
                     error |-> None]))

----------------------------------------------------------------------------
(* SshClient::get_open_ports *)

\* the body of the loop for one line: the Port pushed, if any
port_of_line(line) ==
    LET port_str == nth(split(line, <<":">>), 1)
        port_part == IF is_some(port_str) THEN nth(split_whitespace(port_str[1]), 0)
                     ELSE None
        port == IF is_some(port_part) THEN parse_u16(port_part[1]) ELSE None
        protocol == unwrap_or(nth(split_whitespace(line), 0), <<"unknown">>)
        after == nth(split(line, <<"users", ":", "(", "\"">>), 1)
        process == IF is_some(after) THEN split(after[1], <<"\"">>)[1]
                   ELSE <<"unknown">>
    IN IF is_some(port)
       THEN Some([port |-> port[1], protocol |-> protocol, process |-> process])
       ELSE None

get_open_ports(r) ==
    IF ~r.ok THEN Err(r.val)
    ELSE LET output == r.val
             upto[k \in 0..Len(output)] ==
                 IF k = 0 THEN <<>> ELSE upto[k - 1] \o port_of_line(output[k])
         IN Ok(upto[Len(output)])

----------------------------------------------------------------------------
(* SshClient::get_recent_errors *)

error_of_line(line) ==
    LET parts == splitn(4, line, <<" ">>)
    IN IF Len(parts) >= 4
       THEN Some([timestamp |-> parts[1],
                  service |-> unwrap_or(nth(parts, 1), <<"unknown">>),
                  level |-> <<"err">>,
                  message |-> join(SubSeq(parts, 3, Len(parts)), <<" ">>)])
       ELSE None

get_recent_errors(r) ==
    IF ~r.ok THEN Err(r.val)
    ELSE IF output_contains(r.val, "JOURNALCTL_ERROR") \/ output_blank(r.val) THEN Ok(<<>>)
    ELSE LET output == r.val
             upto[k \in 0..Len(output)] ==
                 IF k = 0 THEN <<>> ELSE upto[k - 1] \o error_of_line(output[k])
         IN Ok(upto[Len(output)])

\* Result::unwrap_or_default / unwrap_or(None) as scan applies them
unwrap_or_default(res) == IF res.ok THEN res.val ELSE <<>>

----------------------------------------------------------------------------
(* InventoryScanner::check_critical_issues *)

\* A critical issue is the formatted string, kept as its arguments: the host
\* name that opens it, the kind of message, and the port, service names or
\* text that follow.
connect_issue(host, e) ==
    [host |-> host, kind |-> "connect", port |-> 0, names |-> <<>>, text |-> e]
conflict_issue(host, port, names) ==
    [host |-> host, kind |-> "Port conflict", port |-> port, names |-> names, text |-> <<>>]
binding_issue(host, message) ==
    [host |-> host, kind |-> "Port binding error", port |-> 0, names |-> <<>>, text |-> message]

\* port_usage without the test on the status of the service
port_usage_any_status(services, port) ==
    LET of_service(svc) ==
            LET upto[k \in 0..Len(svc.ports)] ==
                    IF k = 0 THEN <<>>
                    ELSE IF svc.ports[k] = port THEN Append(upto[k - 1], svc)
                    ELSE upto[k - 1]
            IN upto[Len(svc.ports)]
        upto[k \in 0..Len(services)] ==
            IF k = 0 THEN <<>> ELSE upto[k - 1] \o of_service(services[k])
    IN upto[Len(services)]

\* port_usage[port]: one entry per (Running service, declared port) pair, in
\* the order the two nested loops meet them
port_usage(services, port) ==
    LET of_service(svc) ==
            LET upto[k \in 0..Len(svc.ports)] ==
                    IF k = 0 THEN <<>>
                    ELSE IF svc.ports[k] = port THEN Append(upto[k - 1], svc)
                    ELSE upto[k - 1]
            IN upto[Len(svc.ports)]
        upto[k \in 0..Len(services)] ==
            IF k = 0 THEN <<>>
            ELSE IF services[k].status = "Running"
                 THEN upto[k - 1] \o of_service(services[k])
                 ELSE upto[k - 1]
    IN upto[Len(services)]

port_usage_keys(services) ==
    UNION {{services[k].ports[j] : j \in 1..Len(services[k].ports)} :
              k \in {m \in 1..Len(services) : services[m].status = "Running"}}

\* HashMap iteration visits the keys in an unspecified order: every
\* arrangement of the keys is a possible one
iteration_orders(keys) ==
    {o \in [1..Cardinality(keys) -> keys] : \A a, b \in DOMAIN o : o[a] = o[b] => a = b}

\* the rule with its third pattern read as a regular expression
is_bind_failure_regex(message) ==
    \/ contains(message, <<"NT_STATUS_ADDRESS_ALREADY_ASSOCIATED">>)
    \/ contains(message, <<"Failed", " ", "to", " ", "bind">>)
    \/ \E a, b \in 1..Len(message) :
           a < b /\ message[a] = "port" /\ message[b] = "already"

is_bind_failure(message) ==
    \/ contains(message, <<"NT_STATUS_ADDRESS_ALREADY_ASSOCIATED">>)
    \/ contains(message, <<"Failed", " ", "to", " ", "bind">>)
    \/ contains(message, <<"port", ".", "*", "already">>)

\* the list critical_issues after the call; order is the HashMap's iteration
check_critical_issues(host, services, errors, critical_issues, order) ==
    LET conflicts[k \in 0..Len(order)] ==
            IF k = 0 THEN critical_issues
            ELSE LET svc_list == port_usage(services, order[k])
                 IN IF Len(svc_list) > 1
                    THEN Append(conflicts[k - 1],
                                conflict_issue(host, order[k],
                                    [j \in 1..Len(svc_list) |-> svc_list[j].name]))
                    ELSE conflicts[k - 1]
        binds[k \in 0..Len(errors)] ==
            IF k = 0 THEN conflicts[Len(order)]
            ELSE IF is_bind_failure(errors[k].message)
                 THEN Append(binds[k - 1], binding_issue(host, errors[k].message))
                 ELSE binds[k - 1]
    IN binds[Len(errors)]

----------------------------------------------------------------------------
(* InventoryScanner::generate_summary *)

\* iter().filter(pred).count() for the two filters of generate_summary
count_running(services) ==
    Cardinality({k \in 1..Len(services) : services[k].status = "Running"})
count_up(containers) ==
    Cardinality({k \in 1..Len(containers) : contains(containers[k].status, <<"Up">>)})

\* generate_summary counting the services of the reachable hosts only
generate_summary_reachable_only(vms) ==
    LET total_services[k \in 0..Len(vms)] ==
            IF k = 0 THEN 0
            ELSE total_services[k - 1]
                 + (IF vms[k].reachable THEN Len(vms[k].services) ELSE 0)
        running_services[k \in 0..Len(vms)] ==
            IF k = 0 THEN 0 ELSE running_services[k - 1] + count_running(vms[k].services)
        total_containers[k \in 0..Len(vms)] ==
            IF k = 0 THEN 0 ELSE total_containers[k - 1] + Len(vms[k].containers)
        running_containers[k \in 0..Len(vms)] ==
            IF k = 0 THEN 0 ELSE running_containers[k - 1] + count_up(vms[k].containers)
        n == Len(vms)
    IN [total_vms |-> n,
        reachable_vms |-> Cardinality({k \in 1..n : vms[k].reachable}),
        total_services |-> total_services[n],
        running_services |-> running_services[n],
        failed_services |-> total_services[n] - running_services[n],
        total_containers |-> total_containers[n],
        running_containers |-> running_containers[n]]

generate_summary(vms) ==
    LET total_services[k \in 0..Len(vms)] ==
            IF k = 0 THEN 0 ELSE total_services[k - 1] + Len(vms[k].services)
        running_services[k \in 0..Len(vms)] ==
            IF k = 0 THEN 0 ELSE running_services[k - 1] + count_running(vms[k].services)
        total_containers[k \in 0..Len(vms)] ==
            IF k = 0 THEN 0 ELSE total_containers[k - 1] + Len(vms[k].containers)
        running_containers[k \in 0..Len(vms)] ==
            IF k = 0 THEN 0 ELSE running_containers[k - 1] + count_up(vms[k].containers)
        n == Len(vms)
    IN [total_vms |-> n,
        reachable_vms |-> Cardinality({k \in 1..n : vms[k].reachable}),
        total_services |-> total_services[n],
        running_services |-> running_services[n],
        failed_services |-> total_services[n] - running_services[n],
        total_containers |-> total_containers[n],
        running_containers |-> running_containers[n]]

----------------------------------------------------------------------------
(* WebScanner *)

\* the services configured by WebScanner::new, by name
configured_services ==
    << [name |-> "Coolify", url |-> "https://coolify.secure-penguin.com"],
       [name |-> "Guacamole", url |-> "https://guacamole.secure-penguin.com"],
       [name |-> "N8n", url |-> "https://n8n.secure-penguin.com"],
       [name |-> "Obsidian", url |-> "https://obsidian.secure-penguin.com"],
       [name |-> "S3 Console", url |-> "https://s3-console.secure-penguin.com"],
       [name |-> "Traefik", url |-> "https://traefik.secure-penguin.com"] >>

\* scan_service reading the timer in the Ok arm only
scan_service_untimed(config, response, response_time) ==
    IF response.ok
    THEN Ok([name |-> config.name, url |-> config.url,
             http_status |-> Some(response.val),
             response_time |-> Some(response_time),
             error |-> None])
    ELSE Ok([name |-> config.name, url |-> config.url,
             http_status |-> None,
             response_time |-> None,
             error |-> Some(response.val)])

\* response is what send().await gave: Ok(status code) or Err(text);
\* response_time is the elapsed time read before the match
scan_service(config, response, response_time) ==
    IF response.ok
    THEN Ok([name |-> config.name, url |-> config.url,
             http_status |-> Some(response.val),
             response_time |-> Some(response_time),
             error |-> None])
    ELSE Ok([name |-> config.name, url |-> config.url,
             http_status |-> None,
             response_time |-> Some(response_time),
             error |-> Some(response.val)])

\* a join that hands the outputs back in the order of completion
join_all_completion_order(outputs, completed) ==
    [k \in 1..Len(completed) |-> outputs[completed[k]][1]]

\* futures::future::join_all: the outputs in the order of the futures
\* handed in, whatever the order in which they completed
join_all(outputs, completed) ==
    [k \in 1..Len(completed) |-> outputs[k][1]]

\* scan_all giving up on the first endpoint whose request failed
scan_all_propagating(results) ==
    LET upto[k \in 0..Len(results)] ==
            IF k = 0 THEN <<>>
            ELSE IF results[k].ok THEN Append(upto[k - 1], results[k].val)
            ELSE upto[k - 1]
    IN IF \E k \in 1..Len(results) : results[k].ok /\ is_some(results[k].val.error)
       THEN Err(<<"error sending request">>)
       ELSE Ok(upto[Len(results)])

\* the loop of scan_all over the joined results
scan_all(results) ==
    LET upto[k \in 0..Len(results)] ==
            IF k = 0 THEN <<>>
            ELSE IF results[k].ok THEN Append(upto[k - 1], results[k].val)
            ELSE upto[k - 1]
    IN Ok(upto[Len(results)])

----------------------------------------------------------------------------
(* MarkdownReporter::web_services_table *)

\* The status cell of a row is the formatted string, kept as its arguments:
\* the emoji that opens it, by its short name ("white_check_mark", "warning",
\* "x"), and the status code that follows it, None where the text is ERROR.
\* A record with neither a status nor an error gives the cell "?".

\* the status cell with 400 inside the second range
web_service_status_upto_400(service) ==
    IF is_some(service.http_status)
    THEN LET status == service.http_status[1]
         IN IF status >= 200 /\ status < 300
            THEN [mark |-> "white_check_mark", code |-> Some(status)]
            ELSE IF status >= 300 /\ status <= 400
            THEN [mark |-> "warning", code |-> Some(status)]
            ELSE [mark |-> "x", code |-> Some(status)]
    ELSE IF is_some(service.error)
    THEN [mark |-> "x", code |-> None]
    ELSE [mark |-> "?", code |-> None]

web_service_status(service) ==
    IF is_some(service.http_status)
    THEN LET status == service.http_status[1]
         IN IF status >= 200 /\ status < 300
            THEN [mark |-> "white_check_mark", code |-> Some(status)]
            ELSE IF status >= 300 /\ status < 400
            THEN [mark |-> "warning", code |-> Some(status)]
            ELSE [mark |-> "x", code |-> Some(status)]
    ELSE IF is_some(service.error)
    THEN [mark |-> "x", code |-> None]
    ELSE [mark |-> "?", code |-> None]

\* the rows pushed after the two header lines; time is the response time
\* that is formatted, None where the cell reads N/A
web_services_table(table) ==
    [k \in 1..Len(table) |->
        [name |-> table[k].name, url |-> table[k].url,
         status |-> web_service_status(table[k]),
         time |-> table[k].response_time]]

----------------------------------------------------------------------------
(* Bounds *)

MaxHosts == 2       \* hosts handed to InventoryScanner::new
MaxEndpoints == 2   \* of the configured endpoints, how many are probed
MaxFaults == 1      \* failing commands and requests the environment injects
MaxLines == 2       \* lines of a command output handed to a parser on its own

----------------------------------------------------------------------------
(* The environment: hosts, command outputs, HTTP responses *)

fleet == <<"kingu", "sentinel", "centurion", "pirex">>

HttpStatuses == {204}
\* the reading of the timer started before the request, in whole seconds
Elapsed == {1}
network_error == <<"error sending request">>

stderr_text == << <<"Connection", " ", "refused">> >>

hostname_output(host) == << <<host>> >>

services_output ==
    << <<"podman", "-", "Docker", ".service", " ", "loaded", " ", "active">>,
       <<"ssh", ".service", " ", "loaded", " ", "active">>,
       <<" ", "nginx", ".service", " ", "loaded", " ", "active">> >>

presence_outputs == { << <<"DOCKER_FOUND">> >>, <<>> }

docker_output ==
    << <<"NAMES", " ", "STATUS", " ", "PORTS">>,
       <<"web", " ", " ", "Up", " ", "80/tcp">>,
       <<"cache", " ", "Exited", " ", "-">> >>

podman_output ==
    << <<"NAMES", " ", "STATUS", " ", "PORTS">>,
       <<"db", " ", "Up", " ", "5432/tcp">> >>

wireguard_output ==
    << <<"interface", ":", " ", "wg0">>,
       <<" ", " ", "public", " ", "key", ":", " ", "PK0">>,
       <<" ", " ", "listening", " ", "port", ":", " ", "51820">>,
       <<>>,
       <<"peer", ":", " ", "PK1">>,
       <<" ", " ", "allowed", " ", "ips", ":", " ", "10.10.10.2/32">> >>

open_ports_output ==
    << <<"tcp", " ", "LISTEN", " ", "0.0.0.0", ":", "22", " ", "0.0.0.0", ":", "*">>,
       <<"tcp", " ", "LISTEN", " ", "0.0.0.0", ":", "http", " ", "0.0.0.0", ":", "*">> >>

recent_errors_output ==
    << <<"Nov03", " ", "smbd", " ", "Failed", " ", "to", " ", "bind", " ", "socket">>,
       <<"Nov03", " ", "sshd", " ", "error", " ", "reading">>,
       <<"short", " ", "line">> >>

----------------------------------------------------------------------------
(* State *)

VARIABLES
    hosts,            \* InventoryScanner.hosts, by name
    pc,               \* where scan is: the call it is about to make
    outputs,          \* join_all: the output of each scan_service future, once ready
    completed,        \* join_all: the futures in the order they completed
    web_services,     \* scan: the local web_services
    i,                \* scan: position of the for loop in hosts
    cur,              \* scan: the locals of the Ok arm for the current host
    vms,              \* scan: the local vms
    critical_issues,  \* scan: the local critical_issues
    warnings,         \* scan: the local warnings
    result,           \* what scan returned, None while it runs
    trace,            \* the commands and requests run so far: host position
                      \* (0 for an endpoint), command, outcome
    faults,           \* failures injected so far
    call              \* a parser or rule applied on its own: name, input, output

vars == <<hosts, pc, outputs, completed, web_services, i, cur, vms,
          critical_issues, warnings, result, trace, faults, call>>

services == SubSeq(configured_services, 1, MaxEndpoints)

no_locals ==
    [reachable |-> FALSE, services |-> <<>>, containers |-> <<>>,
     wireguard |-> None, open_ports |-> <<>>, recent_errors |-> <<>>]

no_call == [fn |-> "none", input |-> <<>>, output |-> <<>>]

Init ==
    /\ hosts \in {SubSeq(fleet, 1, n) : n \in 0..MaxHosts}
    /\ pc = "scan_all"
    /\ outputs = [e \in 1..Len(services) |-> None]
    /\ completed = <<>>
    /\ web_services = <<>>
    /\ i = 1
    /\ cur = no_locals
    /\ vms = <<>>
    /\ critical_issues = <<>>
    /\ warnings = <<>>
    /\ result = None
    /\ trace = <<>>
    /\ faults = 0
    /\ call = no_call

\* the ssh child process of connect and run_command: it exits with success
\* and the given stdout, or fails and leaves its stderr
may_fail == faults < MaxFaults
ran(cmd, ok) == Append(trace, [host |-> i, cmd |-> cmd, ok |-> ok])
fault(ok) == IF ok THEN faults ELSE faults + 1

run_command(success, stdout) ==
    IF success THEN Ok(stdout) ELSE Err(stderr_text)

\* the outcomes the environment may give the next command
outcomes == {success \in BOOLEAN : success \/ may_fail}

\* what each probe returns when its command succeeds with the output above
services_parsed == list_running_services(run_command(TRUE, services_output))
docker_parsed == list_docker_containers(run_command(TRUE, docker_output))
podman_parsed == list_podman_containers(run_command(TRUE, podman_output))
wireguard_parsed == get_wireguard_status(run_command(TRUE, wireguard_output))
open_ports_parsed == get_open_ports(run_command(TRUE, open_ports_output))
recent_errors_parsed == get_recent_errors(run_command(TRUE, recent_errors_output))

\* and what it returns when the command fails
command_failed == run_command(FALSE, <<>>)

\* SshClient::connect on the outcome of `ssh ... true`
connect(host, success) ==
    IF success THEN Ok(host)
    ELSE Err(<<"SSH authentication failed">> \o stderr_text[1])

\* SshClient::is_reachable on the outcome of the hostname command
is_reachable(hostname) == hostname.ok

\* the VmStatus pushed by the two arms of the match in scan
vm_status(host, locals) ==
    [host |-> host, reachable |-> locals.reachable, services |-> locals.services,
     containers |-> locals.containers, wireguard |-> locals.wireguard,
     open_ports |-> locals.open_ports, recent_errors |-> locals.recent_errors]

unreachable_vm(host) ==
    [host |-> host, reachable |-> FALSE, services |-> <<>>, containers |-> <<>>,
     wireguard |-> None, open_ports |-> <<>>, recent_errors |-> <<>>]

\* a binding whose failure throws away what the earlier probes found
bind_local_wiping(locals, field, res) ==
    IF res.ok THEN [locals EXCEPT ![field] = res.val]
    ELSE [no_locals EXCEPT !.reachable = locals.reachable]

\* `let field = probe().unwrap_or_default()`: the locals after the binding
bind_local(locals, field, res) ==
    [locals EXCEPT ![field] = unwrap_or_default(res)]

\* the head of `for host in &self.hosts`: the body again, or past the loop
loop_head(k) == IF k <= Len(hosts) THEN "connect" ELSE "summary"

----------------------------------------------------------------------------
(* WebScanner::scan_all, as awaited by scan *)

\* one scan_service future runs to completion
ScanService(e) ==
    /\ pc = "scan_all"
    /\ outputs[e] = None
    /\ \E ok \in BOOLEAN, status \in HttpStatuses, response_time \in Elapsed :
           /\ ok \/ may_fail
           /\ LET response == IF ok THEN Ok(status) ELSE Err(network_error)
              IN outputs' = [outputs EXCEPT ![e] =
                     Some(scan_service(services[e], response, response_time))]
           /\ faults' = fault(ok)
           /\ trace' = Append(trace, [host |-> 0, cmd |-> services[e].name, ok |-> ok])
    /\ completed' = Append(completed, e)
    /\ UNCHANGED <<hosts, pc, web_services, i, cur, vms, critical_issues,
                   warnings, result, call>>

\* join_all is ready: scan_all collects and scan applies `?` to its result
ScanAllReturn ==
    /\ pc = "scan_all"
    /\ Len(completed) = Len(services)
    /\ LET r == scan_all(join_all(outputs, completed))
       IN IF r.ok
          THEN /\ web_services' = r.val
               /\ pc' = loop_head(1)
               /\ result' = result
          ELSE /\ web_services' = web_services
               /\ pc' = "done"
               /\ result' = Some(Err(r.val))
    /\ UNCHANGED <<hosts, outputs, completed, i, cur, vms, critical_issues,
                   warnings, trace, faults, call>>

----------------------------------------------------------------------------
(* The body of the loop over the hosts in scan *)

\* a loop body that tries the connect of the same host again after a failure
Connect_again ==
    /\ pc = "connect"
    /\ \E success \in BOOLEAN :
           /\ success \/ may_fail
           /\ LET r == connect(hosts[i], success)
              IN IF r.ok
                 THEN /\ pc' = "hostname"
                      /\ cur' = no_locals
                      /\ UNCHANGED <<i, vms, critical_issues>>
                 ELSE /\ pc' = "connect"
                      /\ cur' = no_locals
                      /\ UNCHANGED <<i, vms, critical_issues>>
           /\ trace' = ran("connect", success)
           /\ faults' = fault(success)
    /\ UNCHANGED <<hosts, outputs, completed, web_services, warnings, result, call>>

Connect ==
    /\ pc = "connect"
    /\ \E success \in BOOLEAN :
           /\ success \/ may_fail
           /\ LET r == connect(hosts[i], success)
              IN IF r.ok
                 THEN /\ pc' = "hostname"
                      /\ cur' = no_locals
                      /\ UNCHANGED <<i, vms, critical_issues>>
                 ELSE /\ critical_issues' =
                             Append(critical_issues, connect_issue(hosts[i], r.val))
                      /\ vms' = Append(vms, unreachable_vm(hosts[i]))
                      /\ i' = i + 1
                      /\ pc' = loop_head(i + 1)
                      /\ cur' = no_locals
           /\ trace' = ran("connect", success)
           /\ faults' = fault(success)
    /\ UNCHANGED <<hosts, outputs, completed, web_services, warnings, result, call>>

Hostname ==
    /\ pc = "hostname"
    /\ \E success \in outcomes :
           LET hostname == run_command(success, hostname_output(hosts[i]))
           IN /\ cur' = [cur EXCEPT !.reachable = is_reachable(hostname)]
              /\ warnings' = IF ~is_reachable(hostname)
                             THEN Append(warnings, <<hosts[i], " is not reachable">>)
                             ELSE warnings
              /\ trace' = ran("hostname", success)
              /\ faults' = fault(success)
    /\ pc' = "services"
    /\ UNCHANGED <<hosts, outputs, completed, web_services, i, vms,
                   critical_issues, result, call>>

Services ==
    /\ pc = "services"
    /\ \E success \in outcomes :
           /\ cur' = bind_local(cur, "services",
                                IF success THEN services_parsed
                                ELSE list_running_services(command_failed))
           /\ trace' = ran("services", success)
           /\ faults' = fault(success)
    /\ pc' = "containers"
    /\ UNCHANGED <<hosts, outputs, completed, web_services, i, vms,
                   critical_issues, warnings, result, call>>

\* list_containers: the presence check decides which listing is queried
ContainersCheck ==
    /\ pc = "containers"
    /\ \E stdout \in presence_outputs, success \in outcomes :
           /\ pc' = IF docker_found(run_command(success, stdout))
                    THEN "docker" ELSE "podman"
           /\ trace' = ran("presence", success)
           /\ faults' = fault(success)
    /\ UNCHANGED <<hosts, outputs, completed, web_services, i, cur, vms,
                   critical_issues, warnings, result, call>>

DockerList ==
    /\ pc = "docker"
    /\ \E success \in outcomes :
           /\ cur' = bind_local(cur, "containers",
                                IF success THEN docker_parsed
                                ELSE list_docker_containers(command_failed))
           /\ trace' = ran("docker", success)
           /\ faults' = fault(success)
    /\ pc' = "wireguard"
    /\ UNCHANGED <<hosts, outputs, completed, web_services, i, vms,
                   critical_issues, warnings, result, call>>

PodmanList ==
    /\ pc = "podman"
    /\ \E success \in outcomes :
           /\ cur' = bind_local(cur, "containers",
                                IF success THEN podman_parsed
                                ELSE list_podman_containers(command_failed))
           /\ trace' = ran("podman", success)
           /\ faults' = fault(success)
    /\ pc' = "wireguard"
    /\ UNCHANGED <<hosts, outputs, completed, web_services, i, vms,
                   critical_issues, warnings, result, call>>

Wireguard ==
    /\ pc = "wireguard"
    /\ \E success \in outcomes :
           /\ cur' = bind_local(cur, "wireguard",
                                IF success THEN wireguard_parsed
                                ELSE get_wireguard_status(command_failed))
           /\ trace' = ran("wireguard", success)
           /\ faults' = fault(success)
    /\ pc' = "open_ports"
    /\ UNCHANGED <<hosts, outputs, completed, web_services, i, vms,
                   critical_issues, warnings, result, call>>

OpenPorts ==
    /\ pc = "open_ports"
    /\ \E success \in outcomes :
           /\ cur' = bind_local(cur, "open_ports",
                                IF success THEN open_ports_parsed
                                ELSE get_open_ports(command_failed))
           /\ trace' = ran("open_ports", success)
           /\ faults' = fault(success)
    /\ pc' = "recent_errors"
    /\ UNCHANGED <<hosts, outputs, completed, web_services, i, vms,
                   critical_issues, warnings, result, call>>

\* the last probe, then issue derivation and the push of the VmStatus
RecentErrors ==
    /\ pc = "recent_errors"
    /\ \E success \in outcomes :
           LET locals == bind_local(cur, "recent_errors",
                                    IF success THEN recent_errors_parsed
                                    ELSE get_recent_errors(command_failed))
           IN /\ \E order \in iteration_orders(port_usage_keys(locals.services)) :
                     critical_issues' =
                         check_critical_issues(hosts[i], locals.services,
                                               locals.recent_errors, critical_issues, order)
              /\ vms' = Append(vms, vm_status(hosts[i], locals))
              /\ trace' = ran("recent_errors", success)
              /\ faults' = fault(success)
    /\ cur' = no_locals
    /\ i' = i + 1
    /\ pc' = loop_head(i + 1)
    /\ UNCHANGED <<hosts, outputs, completed, web_services, warnings, result, call>>

\* past the loop: generate_summary and Ok(InventoryReport)
Return ==
    /\ pc = "summary"
    /\ result' = Some(Ok([vms |-> vms, web_services |-> web_services,
                          summary |-> generate_summary(vms),
                          critical_issues |-> critical_issues,
                          warnings |-> warnings]))
    /\ pc' = "done"
    /\ UNCHANGED <<hosts, outputs, completed, web_services, i, cur, vms,
                   critical_issues, warnings, trace, faults, call>>

Next ==
    \/ \E e \in 1..Len(services) : ScanService(e)
    \/ ScanAllReturn
    \/ Connect
    \/ Hostname
    \/ Services
    \/ ContainersCheck
    \/ DockerList
    \/ PodmanList
    \/ Wireguard
    \/ OpenPorts
    \/ RecentErrors
    \/ Return

Spec == Init /\ [][Next]_vars

\* every command and request returns, so every step that can be taken is taken
FairSpec == Spec /\ WF_vars(Next)

----------------------------------------------------------------------------
(* The parsers and the issue rule applied on their own to given inputs *)

\* every text of at most n lines over the given lines
Texts(lines, n) == UNION {[1..k -> lines] : k \in 0..n}

garbage_lines == { <<"garbage">>, <<"#", "!", " ", "?">> }
blank_lines == { <<>>, <<" ">> }

service_lines ==
    garbage_lines \cup blank_lines \cup
    { <<"ssh", ".service", " ", "loaded">>,
      <<" ", "Docker", ".service", " ", "loaded">>,
      <<"podman", "-", "docker", ".service">>,
      <<"powerdns", "-", "pdns", "-", "NGINX", ".service">> }

container_lines ==
    garbage_lines \cup blank_lines \cup
    { <<"DOCKER_ERROR">>, <<"PODMAN_ERROR">>,
      <<"NAMES", " ", "STATUS", " ", "PORTS">>,
      <<"web", " ", " ", "Up", " ", "80/tcp", " ", "443/tcp">>,
      <<"db", " ", "Exited">> }

wireguard_lines ==
    garbage_lines \cup blank_lines \cup
    { <<"WG_ERROR">>,
      <<"interface", ":", " ", "wg1">>,
      <<" ", " ", "listening", " ", "port", ":", " ", "51820">>,
      <<"peer", ":", " ", "PK1">>,
      <<"peer", ":", " ", "PK2">>,
      <<" ", " ", "endpoint", ":", " ", "vpn1.example.net">> }

open_port_lines ==
    garbage_lines \cup blank_lines \cup
    { <<"tcp", " ", "LISTEN", " ", "0.0.0.0", ":", "22", " ", "users", ":", "(", "\"", "sshd", "\"">>,
      <<"udp", " ", "UNCONN", " ", "[", ":", ":", "]", ":", "51820">>,
      <<"tcp", " ", "LISTEN", " ", "*", ":", "443">>,
      <<"tcp", " ", "LISTEN", " ", "*", ":", "http">> }

recent_error_lines ==
    garbage_lines \cup blank_lines \cup
    { <<"JOURNALCTL_ERROR">>,
      <<"Nov03", " ", "smbd", " ", "Failed", " ", "to", " ", "bind">>,
      <<"Nov03", " ", "sshd", " ", "port", " ", "22", " ", "already", " ", "in", " ", "use">>,
      <<"Nov03", " ", " ", "kernel", " ", "oops">> }

\* a well-formed tunnel report: interface, public key, listening port and
\* two peer blocks whose four fields are indented by two spaces
PeerValues ==
    [public_key : {<<"PK1">>, <<"PK2">>},
     endpoint : {<<"vpn1.example.net">>, <<"vpn2.example.net">>},
     allowed_ips : {<<"10.10.10.2/32">>},
     latest_handshake : {<<"1", " ", "minute", " ", "ago">>},
     transfer : {<<"92", " ", "KiB", " ", "received">>}]

peer_block(p) ==
    << <<"peer", ":", " ">> \o p.public_key,
       <<" ", " ", "endpoint", ":", " ">> \o p.endpoint,
       <<" ", " ", "allowed", " ", "ips", ":", " ">> \o p.allowed_ips,
       <<" ", " ", "latest", " ", "handshake", ":", " ">> \o p.latest_handshake,
       <<" ", " ", "transfer", ":", " ">> \o p.transfer >>

two_peer_report(p1, p2) ==
    << <<"interface", ":", " ", "wg0">>,
       <<" ", " ", "public", " ", "key", ":", " ", "PK0">>,
       <<" ", " ", "listening", " ", "port", ":", " ", "51820">>,
       <<>> >>
    \o peer_block(p1) \o << <<>> >> \o peer_block(p2)

wireguard_outputs ==
    Texts(wireguard_lines, MaxLines)
    \cup {two_peer_report(p1, p2) : p1, p2 \in PeerValues}

\* services with declared ports, as check_critical_issues accepts them: the
\* k-th service of a list bears the k-th name, and a service declares a port
\* at most once
MaxServices == 3
service_names == << <<"nginx">>, <<"apache">>, <<"traefik">>, <<"samba">> >>
port_lists == { <<>>, <<80>>, <<443>>, <<80, 443>>, <<443, 80>> }

ServiceLists ==
    UNION {{[k \in 1..n |-> [name |-> service_names[k], status |-> st[k], ports |-> po[k]]] :
               st \in [1..n -> {"Running", "Failed"}], po \in [1..n -> port_lists]} :
           n \in 0..MaxServices}

\* messages of recent-error records: with one pattern of the rule, with two,
\* with the third pattern as written, with text a regular expression
\* port.*already would match, and with none
ErrorMessages ==
    { <<"Failed", " ", "to", " ", "bind", " ", "socket">>,
      <<"NT_STATUS_ADDRESS_ALREADY_ASSOCIATED", ":", " ", "Failed", " ", "to", " ", "bind">>,
      <<"bind", ":", " ", "port", ".", "*", "already">>,
      <<"port", " ", "22", " ", "already", " ", "in", " ", "use">>,
      <<"kernel", " ", "oops">> }

LogEntry(message) ==
    [timestamp |-> <<"Nov03">>, service |-> <<"smbd">>, level |-> <<"err">>,
     message |-> message]

ErrorLists ==
    {[k \in DOMAIN t |-> LogEntry(t[k])] : t \in Texts(ErrorMessages, MaxLines)}

\* service lists with no conflict, with one and with two conflicting ports
ConflictLists ==
    {svcs \in ServiceLists :
        /\ Len(svcs) \in {0, 2}
        /\ \A k \in 1..Len(svcs) : svcs[k].status = "Running"
        /\ \A j, k \in 1..Len(svcs) : svcs[j].ports = svcs[k].ports
        /\ \A k \in 1..Len(svcs) : svcs[k].ports \in {<<80>>, <<80, 443>>}}

\* the arguments check_critical_issues is applied to
IssueInputs ==
    {[services |-> svcs, errors |-> <<>>] : svcs \in ServiceLists}
    \cup {[services |-> svcs, errors |-> errors] :
              svcs \in ConflictLists, errors \in ErrorLists}

\* status codes around the edges of the ranges of the reporter, and the ends
\* of u16
StatusCodes == {0, 199, 200, 299, 300, 399, 400, 503, 65535}

\* what scan_service can hand back for the k-th configured endpoint
WebServicesOf(k) ==
    {scan_service(configured_services[k], response, 1).val :
        response \in {Ok(status) : status \in StatusCodes} \cup {Err(network_error)}}

\* the web_services of a report: one record per probed endpoint, in order
WebServiceLists ==
    UNION {{t \in [1..n -> UNION {WebServicesOf(k) : k \in 1..n}] :
               \A k \in 1..n : t[k] \in WebServicesOf(k)} : n \in 0..MaxEndpoints}

\* outcomes of a listing command whose error sentinel is given: the
\* sentinel, nothing, the header alone, the header with a short row, the
\* header with a row, or a failure of the command
ListingOutcomes(sentinel) ==
    {run_command(TRUE, stdout) :
        stdout \in { << <<sentinel>> >>, <<>>,
                     << <<"NAMES", " ", "STATUS", " ", "PORTS">> >>,
                     << <<"NAMES", " ", "STATUS", " ", "PORTS">>, <<"db", " ", "Exited">> >>,
                     << <<"NAMES", " ", "STATUS", " ", "PORTS">>,
                        <<"web", " ", "Up", " ", "80/tcp">> >> }}
    \cup {command_failed}

PresenceOutcomes ==
    {run_command(TRUE, stdout) : stdout \in presence_outputs} \cup {command_failed}

InitUnit ==
    /\ hosts = <<>>
    /\ pc = "unit"
    /\ outputs = [e \in 1..Len(services) |-> None]
    /\ completed = <<>>
    /\ web_services = <<>>
    /\ i = 1
    /\ cur = no_locals
    /\ vms = <<>>
    /\ critical_issues = <<>>
    /\ warnings = <<>>
    /\ result = None
    /\ trace = <<>>
    /\ faults = 0
    /\ call = no_call

scan_vars == <<hosts, pc, outputs, completed, web_services, i, cur, vms,
               critical_issues, warnings, result, trace, faults>>

CallListRunningServices ==
    /\ pc = "unit" /\ call.fn = "none"
    /\ \E output \in Texts(service_lines, MaxLines) :
           call' = [fn |-> "list_running_services", input |-> output,
                    output |-> list_running_services(Ok(output))]
    /\ UNCHANGED scan_vars

CallListDockerContainers ==
    /\ pc = "unit" /\ call.fn = "none"
    /\ \E output \in Texts(container_lines, MaxLines) :
           call' = [fn |-> "list_docker_containers", input |-> output,
                    output |-> list_docker_containers(Ok(output))]
    /\ UNCHANGED scan_vars

CallListPodmanContainers ==
    /\ pc = "unit" /\ call.fn = "none"
    /\ \E output \in Texts(container_lines, MaxLines) :
           call' = [fn |-> "list_podman_containers", input |-> output,
                    output |-> list_podman_containers(Ok(output))]
    /\ UNCHANGED scan_vars

CallGetWireguardStatus ==
    /\ pc = "unit" /\ call.fn = "none"
    /\ \E output \in wireguard_outputs :
           call' = [fn |-> "get_wireguard_status", input |-> output,
                    output |-> get_wireguard_status(Ok(output))]
    /\ UNCHANGED scan_vars

CallGetOpenPorts ==
    /\ pc = "unit" /\ call.fn = "none"
    /\ \E output \in Texts(open_port_lines, MaxLines) :
           call' = [fn |-> "get_open_ports", input |-> output,
                    output |-> get_open_ports(Ok(output))]
    /\ UNCHANGED scan_vars

CallGetRecentErrors ==
    /\ pc = "unit" /\ call.fn = "none"
    /\ \E output \in Texts(recent_error_lines, MaxLines) :
           call' = [fn |-> "get_recent_errors", input |-> output,
                    output |-> get_recent_errors(Ok(output))]
    /\ UNCHANGED scan_vars

CallCheckCriticalIssues ==
    /\ pc = "unit" /\ call.fn = "none"
    /\ \E in \in IssueInputs :
           \E order \in iteration_orders(port_usage_keys(in.services)) :
               call' = [fn |-> "check_critical_issues",
                        input |-> [host |-> fleet[1], services |-> in.services,
                                   errors |-> in.errors],
                        output |-> check_critical_issues(fleet[1], in.services,
                                                         in.errors, <<>>, order)]
    /\ UNCHANGED scan_vars

CallWebServicesTable ==
    /\ pc = "unit" /\ call.fn = "none"
    /\ \E table \in WebServiceLists :
           call' = [fn |-> "web_services_table", input |-> table,
                    output |-> web_services_table(table)]
    /\ UNCHANGED scan_vars

CallListContainers ==
    /\ pc = "unit" /\ call.fn = "none"
    /\ \E presence \in PresenceOutcomes,
          docker \in ListingOutcomes("DOCKER_ERROR"),
          podman \in ListingOutcomes("PODMAN_ERROR") :
           call' = [fn |-> "list_containers",
                    input |-> [presence |-> presence, docker |-> docker, podman |-> podman],
                    output |-> list_containers(presence, docker, podman)]
    /\ UNCHANGED scan_vars

NextUnit ==
    \/ CallListRunningServices
    \/ CallListDockerContainers
    \/ CallListPodmanContainers
    \/ CallGetWireguardStatus
    \/ CallGetOpenPorts
    \/ CallGetRecentErrors
    \/ CallCheckCriticalIssues
    \/ CallWebServicesTable
    \/ CallListContainers

UnitSpec == InitUnit /\ [][NextUnit]_vars

----------------------------------------------------------------------------
(* Properties *)

returned_ok == result # None /\ result[1].ok

attempted(k, cmd) ==
    \E j \in 1..Len(trace) : trace[j].host = k /\ trace[j].cmd = cmd
succeeded(k, cmd) ==
    \E j \in 1..Len(trace) : trace[j].host = k /\ trace[j].cmd = cmd /\ trace[j].ok
failed(k, cmd) ==
    \E j \in 1..Len(trace) : trace[j].host = k /\ trace[j].cmd = cmd /\ ~trace[j].ok

RECURSIVE sum_services(_)
sum_services(v) ==
    IF v = <<>> THEN 0 ELSE Len(Head(v).services) + sum_services(Tail(v))

\* C1: in every report scan returns, total_services is the sum of the
\* lengths of the hosts' service lists, running_services does not exceed it,
\* failed_services is their difference, and reachable_vms <= total_vms.
C1_SummaryInvariants ==
    returned_ok =>
        LET r == result[1].val
        IN /\ r.summary.total_services = sum_services(r.vms)
           /\ r.summary.running_services <= r.summary.total_services
           /\ r.summary.failed_services
                  = r.summary.total_services - r.summary.running_services
           /\ r.summary.failed_services >= 0
           /\ r.summary.reachable_vms <= r.summary.total_vms
           /\ r.summary.total_vms = Len(r.vms)

C1_Witness ==
    /\ returned_ok
    /\ Len(result[1].val.vms) = 2
    /\ result[1].val.summary.total_services > 0
    /\ result[1].val.summary.reachable_vms < result[1].val.summary.total_vms
    /\ faults > 0

\* C2: in every report scan returns, a host recorded with reachable = FALSE
\* has empty services, containers, open ports and recent errors, no tunnel
\* status, and exactly one critical issue that names it.
C2_UnreachableIsEmpty ==
    returned_ok =>
        LET r == result[1].val
        IN \A k \in 1..Len(r.vms) :
               ~r.vms[k].reachable =>
                   /\ r.vms[k].services = <<>>
                   /\ r.vms[k].containers = <<>>
                   /\ r.vms[k].wireguard = None
                   /\ r.vms[k].open_ports = <<>>
                   /\ r.vms[k].recent_errors = <<>>
                   /\ Cardinality({j \in 1..Len(r.critical_issues) :
                          r.critical_issues[j].host = r.vms[k].host}) = 1

\* C3: the report holds one VmStatus per input host and one WebService per
\* configured endpoint, both in input order, whatever the order in which the
\* endpoint probes completed and whichever probes failed.
C3_InputOrder ==
    returned_ok =>
        LET r == result[1].val
        IN /\ Len(r.vms) = Len(hosts)
           /\ \A k \in 1..Len(hosts) : r.vms[k].host = hosts[k]
           /\ Len(r.web_services) = Len(services)
           /\ \A e \in 1..Len(services) :
                  /\ r.web_services[e].name = services[e].name
                  /\ r.web_services[e].url = services[e].url

C3_Witness ==
    /\ returned_ok
    /\ Len(hosts) = 2
    /\ completed = <<2, 1>>
    /\ failed(1, "connect")
    /\ Len(result[1].val.vms[2].services) = 3

\* C4: when every command and request returns, scan eventually returns Ok
\* with every host processed, whatever failed on the way.
C4_ScanReturnsOk ==
    <>(/\ pc = "done"
       /\ returned_ok
       /\ Len(result[1].val.vms) = Len(hosts))

C4_Witness ==
    /\ pc = "done"
    /\ returned_ok
    /\ Len(hosts) = 2
    /\ faults = MaxFaults
    /\ \E e \in 1..Len(services) : failed(0, services[e].name)

\* C5: for a host whose connect succeeded, a probe that fails leaves the
\* empty result for that probe alone: all five probes are still run, every
\* probe that succeeded keeps what it parsed, the host has its VmStatus, and
\* the host's critical issues are those derived from its services and
\* recent errors and nothing else.
C5_ProbeFailureIsolated ==
    returned_ok =>
        LET r == result[1].val
        IN \A k \in 1..Len(hosts) :
               succeeded(k, "connect") =>
                   /\ Len(r.vms) >= k
                   /\ r.vms[k].host = hosts[k]
                   /\ attempted(k, "services")
                   /\ attempted(k, "docker") \/ attempted(k, "podman")
                   /\ attempted(k, "wireguard")
                   /\ attempted(k, "open_ports")
                   /\ attempted(k, "recent_errors")
                   /\ r.vms[k].services =
                          IF failed(k, "services") THEN <<>>
                          ELSE services_parsed.val
                   /\ r.vms[k].containers =
                          IF succeeded(k, "docker")
                          THEN docker_parsed.val
                          ELSE IF succeeded(k, "podman")
                          THEN podman_parsed.val
                          ELSE <<>>
                   /\ r.vms[k].wireguard =
                          IF failed(k, "wireguard") THEN None
                          ELSE wireguard_parsed.val
                   /\ r.vms[k].open_ports =
                          IF failed(k, "open_ports") THEN <<>>
                          ELSE open_ports_parsed.val
                   /\ r.vms[k].recent_errors =
                          IF failed(k, "recent_errors") THEN <<>>
                          ELSE recent_errors_parsed.val
                   /\ SelectSeq(r.critical_issues, LAMBDA x : x.host = hosts[k])
                          = check_critical_issues(hosts[k], r.vms[k].services,
                                                  r.vms[k].recent_errors, <<>>, <<>>)

C5_Witness ==
    /\ returned_ok
    /\ \E k \in 1..Len(hosts) :
           /\ succeeded(k, "connect")
           /\ succeeded(k, "services")
           /\ succeeded(k, "docker")
           /\ failed(k, "wireguard")
           /\ succeeded(k, "open_ports")
           /\ succeeded(k, "recent_errors")
           /\ result[1].val.vms[k].wireguard = None
           /\ Len(result[1].val.vms[k].services) = 3
           /\ Len(result[1].val.vms[k].containers) = 2
           /\ Len(result[1].val.vms[k].open_ports) = 1
           /\ Len(result[1].val.vms[k].recent_errors) = 2

\* C6: a host is recorded with reachable = TRUE exactly when its connect
\* succeeded, whatever the commands run after the connect did.
C6_ReachableIffConnected ==
    returned_ok =>
        \A k \in 1..Len(result[1].val.vms) :
            result[1].val.vms[k].reachable = succeeded(k, "connect")

\* the Running services of a list that declare the port, as met in the list
declarers(svcs, port) ==
    SelectSeq(svcs, LAMBDA svc :
        /\ svc.status = "Running"
        /\ \E j \in 1..Len(svc.ports) : svc.ports[j] = port)

conflicts_on(issues, port) ==
    {j \in 1..Len(issues) : issues[j].kind = "Port conflict" /\ issues[j].port = port}

\* C7: on one host, check_critical_issues produces for a port exactly one
\* port-conflict issue, naming the host, the port and the declaring services
\* in list order, when more than one Running service declares the port, and
\* none otherwise; services that are not Running do not count.
C7_PortConflicts ==
    call.fn = "check_critical_issues" =>
        \A port \in {80, 443} :
            LET d == declarers(call.input.services, port)
                hits == conflicts_on(call.output, port)
            IN IF Len(d) > 1
               THEN /\ Cardinality(hits) = 1
                    /\ \A j \in hits :
                           call.output[j] =
                               conflict_issue(call.input.host, port,
                                              [m \in 1..Len(d) |-> d[m].name])
               ELSE hits = {}

C7_Witness ==
    /\ call.fn = "check_critical_issues"
    /\ Len(call.input.services) = 3
    /\ call.input.services[1].status = "Running"
    /\ call.input.services[2].status = "Failed"
    /\ call.input.services[3].status = "Running"
    /\ \A k \in 1..3 : call.input.services[k].ports = <<443>>
    /\ call.input.errors = <<>>
    /\ call.output = << conflict_issue(fleet[1], 443, << <<"nginx">>, <<"traefik">> >>) >>

\* the WireGuardPeer that bears the values of a peer block
peer_of(p) ==
    [public_key |-> p.public_key,
     endpoint |-> Some(p.endpoint),
     allowed_ips |-> p.allowed_ips,
     latest_handshake |-> Some(p.latest_handshake),
     transfer |-> Some(p.transfer)]

\* C8: for a tunnel report with interface, public key, listening port and
\* two peer blocks whose fields are indented by two spaces,
\* get_wireguard_status returns two peers that carry the endpoint, allowed
\* IPs, latest handshake and transfer written in the text.
C8_TunnelRoundTrip ==
    \A p1, p2 \in PeerValues :
        (call.fn = "get_wireguard_status" /\ call.input = two_peer_report(p1, p2)) =>
            /\ call.output.ok
            /\ is_some(call.output.val)
            /\ call.output.val[1].peers = <<peer_of(p1), peer_of(p2)>>

parsers ==
    {"list_running_services", "list_docker_containers", "list_podman_containers",
     "get_wireguard_status", "get_open_ports", "get_recent_errors"}

sentinel_of(fn) ==
    CASE fn = "list_docker_containers" -> << <<"DOCKER_ERROR">> >>
      [] fn = "list_podman_containers" -> << <<"PODMAN_ERROR">> >>
      [] fn = "get_wireguard_status" -> << <<"WG_ERROR">> >>
      [] fn = "get_recent_errors" -> << <<"JOURNALCTL_ERROR">> >>
      [] OTHER -> <<>>

\* empty output, output of blank and garbage lines only, or the sentinel
unrecognisable(fn, output) ==
    \/ \A k \in 1..Len(output) : output[k] \in garbage_lines \cup blank_lines
    \/ output = sentinel_of(fn)

\* C9: each parser, given empty output, garbage without a recognisable line
\* or its error sentinel, succeeds with the empty result: an empty list, or
\* None for the tunnel status.
C9_ParsersTotal ==
    (call.fn \in parsers /\ unrecognisable(call.fn, call.input)) =>
        /\ call.output.ok
        /\ call.output.val = <<>>

received(e) == succeeded(0, services[e].name)

\* C10: every endpoint probe that has run returned Ok with response_time
\* set; a received response sets http_status and leaves error unset, a
\* network error sets error and leaves http_status unset.
C10_ProbeNeverFails ==
    \A e \in 1..Len(services) :
        outputs[e] # None =>
            /\ outputs[e][1].ok
            /\ is_some(outputs[e][1].val.response_time)
            /\ is_some(outputs[e][1].val.http_status) # is_some(outputs[e][1].val.error)
            /\ is_some(outputs[e][1].val.http_status) = received(e)
            /\ is_some(outputs[e][1].val.error) = failed(0, services[e].name)

C10_Witness ==
    /\ outputs[1] # None /\ outputs[2] # None
    /\ outputs[1][1].val.http_status = Some(204)
    /\ outputs[2][1].val.error = Some(network_error)
    /\ outputs[2][1].val.http_status = None
    /\ outputs[2][1].val.response_time # None

\* C11: the status cell of every row of web_services_table is decided by the
\* endpoint's record alone: healthy for a status code in 200..299, warning
\* for one in 300..399, critical for every other status code and for a
\* record with a network error and no status code.
C11_EndpointClassification ==
    call.fn = "web_services_table" =>
        /\ Len(call.output) = Len(call.input)
        /\ \A k \in 1..Len(call.input) :
               LET service == call.input[k]
                   mark == call.output[k].status.mark
               IN IF is_some(service.http_status)
                  THEN LET status == service.http_status[1]
                       IN /\ (status \in 200..299) => mark = "white_check_mark"
                          /\ (status \in 300..399) => mark = "warning"
                          /\ (status \notin 200..399) => mark = "x"
                  ELSE is_some(service.error) => mark = "x"

C11_Witness ==
    /\ call.fn = "web_services_table"
    /\ Len(call.input) = 2
    /\ call.input[1].http_status = Some(400)
    /\ call.input[2].error = Some(network_error)
    /\ call.output[1].status = [mark |-> "x", code |-> Some(400)]
    /\ call.output[2].status = [mark |-> "x", code |-> None]

\* host k's pipeline has started and its VmStatus is not pushed yet
pending(k) == attempted(k, "connect") /\ Len(vms) < k

\* the connect of host k as the next step of scan
ConnectHost(k) == Connect /\ i = k

\* C12: while the pipeline of a host A is pending, the pipeline of any other
\* host B that has not started can start: its connect is a possible next
\* step.
C12_NoBlockingBetweenHosts ==
    \A a, b \in 1..Len(hosts) :
        (a # b /\ pending(a) /\ ~attempted(b, "connect")) => ENABLED ConnectHost(b)

\* how many times a command was run on host k
runs(k, cmd) ==
    Cardinality({j \in 1..Len(trace) : trace[j].host = k /\ trace[j].cmd = cmd})

\* the commands of the five inventory probes; the container probe runs the
\* presence check and one listing
probe_commands ==
    {"services", "presence", "docker", "podman", "wireguard", "open_ports",
     "recent_errors"}

\* C13: within one run of scan, connect is attempted at most once on a host
\* and exactly once on every host whose VmStatus is pushed; each probe is
\* started at most once on a host, failed or not; and a host whose connect
\* failed has no command run on it after the connect.
C13_NoRetry ==
    \A k \in 1..Len(hosts) :
        /\ runs(k, "connect") <= 1
        /\ (k <= Len(vms)) => runs(k, "connect") = 1
        /\ \A cmd \in probe_commands : runs(k, cmd) <= 1
        /\ runs(k, "docker") + runs(k, "podman") <= 1
        /\ failed(k, "connect") =>
               \A cmd \in probe_commands \cup {"hostname"} : runs(k, cmd) = 0

C13_Witness ==
    /\ returned_ok
    /\ Len(hosts) = 2
    /\ failed(1, "connect")
    /\ runs(1, "connect") = 1
    /\ \A cmd \in probe_commands \ {"podman"} : runs(2, cmd) = 1
    /\ Len(trace) = Len(services) + 1 + 8

\* the fixed patterns of the bind-failure rule, as plain text
bind_patterns ==
    { <<"NT_STATUS_ADDRESS_ALREADY_ASSOCIATED">>,
      <<"Failed", " ", "to", " ", "bind">>,
      <<"port", ".", "*", "already">> }

matches_pattern(message) == \E p \in bind_patterns : contains(message, p)

\* C14: on one host, the port-binding issues check_critical_issues produces
\* are one per recent-error record whose message contains one of the fixed
\* patterns as a plain substring, naming the host and the literal message, in
\* log order; a record with several patterns gives one issue, a record with
\* none gives none; and they come after the port-conflict issues of the host.
C14_BindFailures ==
    call.fn = "check_critical_issues" =>
        LET matching == SelectSeq(call.input.errors,
                                  LAMBDA e : matches_pattern(e.message))
            binding == SelectSeq(call.output,
                                 LAMBDA x : x.kind = "Port binding error")
        IN /\ binding = [j \in 1..Len(matching) |->
                            binding_issue(call.input.host, matching[j].message)]
           /\ \A a, b \in 1..Len(call.output) :
                  (call.output[a].kind = "Port conflict"
                   /\ call.output[b].kind = "Port binding error") => a < b

C14_Witness ==
    /\ call.fn = "check_critical_issues"
    /\ Len(call.input.services) = 2
    /\ call.input.services[1].ports = <<80>>
    /\ Len(call.input.errors) = 2
    /\ contains(call.input.errors[1].message, <<"NT_STATUS_ADDRESS_ALREADY_ASSOCIATED">>)
    /\ contains(call.input.errors[1].message, <<"Failed", " ", "to", " ", "bind">>)
    /\ call.input.errors[2].message = <<"port", " ", "22", " ", "already", " ", "in", " ", "use">>
    /\ call.output =
           << conflict_issue(fleet[1], 80, << <<"nginx">>, <<"apache">> >>),
              binding_issue(fleet[1], call.input.errors[1].message) >>

\* the allow-list fragments that occur in the lower-cased line
fragments_in(line) ==
    {k \in 1..Len(service_patterns) :
        contains(to_lowercase(line), <<service_patterns[k]>>)}

\* C15: list_running_services returns, line after line, as many records as
\* allow-list fragments occur in the lower-cased line (none for a line with
\* no fragment), each named after the trimmed line, with status Running and
\* no ports.
C15_ServiceRecords ==
    call.fn = "list_running_services" =>
        LET lines == call.input
            expected[k \in 0..Len(lines)] ==
                IF k = 0 THEN <<>>
                ELSE expected[k - 1] \o
                     [j \in 1..Cardinality(fragments_in(lines[k])) |->
                         [name |-> trim(lines[k]), status |-> "Running", ports |-> <<>>]]
        IN /\ call.output.ok
           /\ call.output.val = expected[Len(lines)]

C15_Witness ==
    /\ call.fn = "list_running_services"
    /\ Len(call.input) = 2
    /\ Cardinality(fragments_in(call.input[1])) = 3
    /\ Cardinality(fragments_in(call.input[2])) = 1
    /\ call.input[2][1] = " "
    /\ Len(call.output.val) = 4
    /\ call.output.val[3].name = trim(call.input[1])
    /\ call.output.val[4].name = <<"Docker", ".service", " ", "loaded">>

\* the `peer:` lines of a tool output, in text order, and the key written
\* after the colon of such a line
peer_lines(output) ==
    SelectSeq(output, LAMBDA line : starts_with(trim(line), <<"peer", ":">>))

key_of(line) == LET t == trim(line) IN trim(SubSeq(t, 3, Len(t)))

\* C16: for a tool output that is not blank and does not hold the error
\* sentinel, get_wireguard_status returns a status with one peer per `peer:`
\* line, in text order, each with the public key of its line: the first and
\* the last peer are there.
C16_PeerFlushing ==
    (/\ call.fn = "get_wireguard_status"
     /\ ~output_blank(call.input)
     /\ ~output_contains(call.input, "WG_ERROR")) =>
        /\ call.output.ok
        /\ is_some(call.output.val)
        /\ LET found == call.output.val[1].peers
               lines == peer_lines(call.input)
           IN /\ Len(found) = Len(lines)
              /\ \A j \in 1..Len(lines) : found[j].public_key = key_of(lines[j])

C16_Witness ==
    /\ call.fn = "get_wireguard_status"
    /\ call.input = << <<"peer", ":", " ", "PK2">>, <<"peer", ":", " ", "PK1">> >>
    /\ Len(call.output.val[1].peers) = 2
    /\ call.output.val[1].peers[1].public_key = <<"PK2">>
    /\ call.output.val[1].peers[2].public_key = <<"PK1">>

\* a listing output without a container row: the sentinel, nothing but
\* blanks, or no line after the header with three fields
no_rows(output, sentinel) ==
    \/ output_contains(output, sentinel)
    \/ output_blank(output)
    \/ \A k \in 2..Len(output) : Len(split_whitespace(output[k])) < 3

\* C17: list_containers runs the presence check first and then exactly one
\* listing: the first runtime's if and only if the check succeeded and
\* reported the runtime present, the second runtime's otherwise; and a
\* listing that reports the sentinel (the runtime is absent or failed) or has
\* no rows gives Ok with an empty list.
C17_RuntimeFallback ==
    call.fn = "list_containers" =>
        LET in == call.input
            queried == call.output.queried
            present == in.presence.ok /\ output_contains(in.presence.val, "DOCKER_FOUND")
            listing == IF queried[2] = "docker" THEN in.docker ELSE in.podman
            sentinel == IF queried[2] = "docker" THEN "DOCKER_ERROR" ELSE "PODMAN_ERROR"
        IN /\ Len(queried) = 2
           /\ queried[1] = "presence"
           /\ queried[2] \in {"docker", "podman"}
           /\ (queried[2] = "docker") <=> present
           /\ (listing.ok /\ no_rows(listing.val, sentinel)) =>
                  call.output.result = Ok(<<>>)

C17_Witness ==
    /\ call.fn = "list_containers"
    /\ call.input.presence = Ok(<<>>)
    /\ call.input.docker.ok /\ Len(call.input.docker.val) = 2
    /\ call.input.podman = Ok(<< <<"PODMAN_ERROR">> >>)
    /\ call.output = [queried |-> <<"presence", "podman">>, result |-> Ok(<<>>)]

====
